---------------------------- MODULE Spec2Model ----------------------------
(***************************************************************************)
(* Model of the tool-augmented generation loop (backend/ai_generator.py)   *)
(* and of the tool / tool-registry layer (backend/search_tools.py).        *)
(*                                                                         *)
(* Python values are represented as follows:                               *)
(*   - str            a TLA+ string, f-strings are built with \o           *)
(*   - Optional[T]    None is <<>>, a present value v is <<v>>             *)
(*   - list           a sequence                                           *)
(*   - dict / object  a record                                             *)
(*   - an exception   a record [raised |-> TRUE, exc |-> type, msg |-> m]  *)
(***************************************************************************)
EXTENDS Integers, Sequences, FiniteSets, TLC

VARIABLES
    tools,            \* ToolManager.tools: the dict, as the sequence of its items in dict order
    last_sources,     \* last_sources attribute of every tool instance
    ret,              \* the last registry operation, with what it returned or raised
    last_executed,    \* history: the tool whose execute() ran most recently, with the sources that run assigned
    registrations,    \* history: the names in the order they were first registered, and the
                      \* registered tools in the order they entered the registry
    pc,               \* position of the generate_response invocation
    api_params,       \* api_params of generate_response (base_params of _handle_tool_execution)
    tool_manager,     \* the tool_manager argument: TRUE when a registry is supplied, FALSE for None
    messages,         \* local messages of _handle_tool_execution
    current_response, \* local current_response
    rounds_completed, \* local rounds_completed
    tool_results,     \* local tool_results of the round in progress
    block_idx,        \* position of the for loop over current_response.content
    answer,           \* what generate_response returned or raised
    calls,            \* history: the requests sent to client.messages.create, in order
    execs,            \* history: the model calls already made when each tool execution started
    queries,          \* the queries served concurrently on the one registry: where each is, and what it read
    producer,         \* history: the query whose tool execution assigned each tool's last_sources (0: none)
    lists,            \* the list objects: the contents of each, by identity
    bound,            \* the list object each tool's last_sources attribute names
    held              \* the list object a caller obtained from get_last_sources(), with the
                      \* contents it had then and the operations called since

tmVars == <<tools, last_sources, ret, last_executed, registrations>>
genVars == <<pc, api_params, tool_manager, messages, current_response,
             rounds_completed, tool_results, block_idx, answer, calls, execs>>
qVars == <<queries, producer>>
aVars == <<lists, bound, held>>
vars == <<tools, last_sources, ret, last_executed, registrations, pc, api_params, tool_manager,
          messages, current_response, rounds_completed, tool_results, block_idx,
          answer, calls, execs, queries, producer, lists, bound, held>>

-----------------------------------------------------------------------------
(* Bounds of the model                                                     *)

\* longest list of chunks a search returns
MaxChunks == 2
\* longest content list of a model response
MaxBlocks == 2

-----------------------------------------------------------------------------
(* Python values                                                           *)

None == <<>>
Some(v) == <<v>>
IsNone(o) == o = <<>>
Val(o) == o[1]

\* truthiness of an Optional[str]: None and "" are falsy
TruthyStr(o) == o # <<>> /\ o[1] # ""
\* truthiness of an Optional[int]: None and 0 are falsy
TruthyInt(o) == o # <<>> /\ o[1] # 0

Raise(exc, msg) == [raised |-> TRUE, exc |-> exc, msg |-> msg]
Return(v) == [raised |-> FALSE, value |-> v]

\* sep.join(parts)
RECURSIVE Join(_, _)
Join(parts, sep) ==
    IF parts = <<>> THEN ""
    ELSE IF Len(parts) = 1 THEN parts[1]
    ELSE parts[1] \o sep \o Join(Tail(parts), sep)

\* t in s, for strings
Contains(s, t) ==
    \E i \in 1..(Len(s) - Len(t) + 1) : SubSeq(s, i, i + Len(t) - 1) = t

StartsWith(s, t) == Len(s) >= Len(t) /\ SubSeq(s, 1, Len(t)) = t

\* all sequences over S of length at most n
SeqsUpTo(S, n) == UNION {[1..k -> S] : k \in 0..n}


-----------------------------------------------------------------------------
(* The search backend (vector store), an external collaborator: what it    *)
(* answers is an input of the model.                                       *)

\* metadata of one chunk: meta.get("course_title") and meta.get("lesson_number")
ChunkMetas ==
    { [course_title |-> Some("CourseA"), lesson_number |-> Some(1)],
      [course_title |-> Some("CourseA"), lesson_number |-> Some(2)],
      [course_title |-> Some("CourseA - Lesson 1"), lesson_number |-> None] }

SearchResults(docs, metas, err) == [documents |-> docs, metadata |-> metas, error |-> err]

\* results of n chunks with the given metadata
ChunkResults(metas) ==
    SearchResults([i \in 1..Len(metas) |-> "doc" \o ToString(i)], metas, None)

\* store.search(...) raises
SearchRaises == Raise("Exception", "backend down")

\* what store.search(...) may answer: a result (chunks, nothing, or a reported
\* error with or without documents), or an exception
SearchOutcomes(maxChunks) ==
    {Return(ChunkResults(m)) : m \in SeqsUpTo(ChunkMetas, maxChunks)}
    \cup {Return(SearchResults(<<>>, <<>>, Some("Search error: boom"))),
          Return(SearchResults(<<"doc1">>, <<[course_title |-> Some("CourseA"),
                                             lesson_number |-> Some(1)]>>,
                               Some("Search error: boom"))),
          SearchRaises}

\* SearchResults.is_empty()
is_empty(results) == Len(results.documents) = 0

\* store.get_lesson_link(course_title, lesson_num): lesson 1 has a link, the others none
get_lesson_link(course_title, lesson_num) ==
    IF lesson_num = 1 THEN Some("http://x/" \o course_title \o "/1") ELSE None

-----------------------------------------------------------------------------
(* CourseSearchTool                                                        *)

SearchToolName == "search_course_content"

\* one iteration of the loop of _format_results, from the loop's state `prev`;
\* lookups are the calls of store.get_lesson_link made so far
FormatStep(prev, doc, meta) ==
    LET course_title == IF IsNone(meta.course_title) THEN "unknown"
                        ELSE Val(meta.course_title)
        lesson_num == meta.lesson_number
        suffix == IF lesson_num # None
                  THEN " - Lesson " \o ToString(Val(lesson_num)) ELSE ""
        header == "[" \o course_title \o suffix \o "]"
        source_title == course_title \o suffix
        lesson_link == IF lesson_num # None
                       THEN get_lesson_link(course_title, Val(lesson_num))
                       ELSE None
    IN  [formatted |-> Append(prev.formatted, header \o "\n" \o doc),
         sources |-> IF source_title \notin prev.seen_titles
                     THEN Append(prev.sources,
                                 [title |-> source_title, url |-> lesson_link])
                     ELSE prev.sources,
         seen_titles |-> prev.seen_titles \cup {source_title},
         lookups |-> IF source_title \notin prev.seen_titles /\ lesson_num # None
                     THEN Append(prev.lookups, <<course_title, Val(lesson_num)>>)
                     ELSE prev.lookups]

\* state of the loop of _format_results after the first n (doc, meta) pairs
RECURSIVE FormatLoop(_, _)
FormatLoop(results, n) ==
    IF n = 0 THEN [formatted |-> <<>>, sources |-> <<>>, seen_titles |-> {}, lookups |-> <<>>]
    ELSE FormatStep(FormatLoop(results, n - 1), results.documents[n], results.metadata[n])

\* zip(results.documents, results.metadata) stops at the shorter list
ZipLen(results) ==
    IF Len(results.documents) <= Len(results.metadata)
    THEN Len(results.documents) ELSE Len(results.metadata)

\* CourseSearchTool._format_results: the text returned and the new last_sources
FormatResults(results) ==
    LET loop == FormatLoop(results, ZipLen(results))
    IN  [out |-> Return(Join(loop.formatted, "\n\n")),
         sources |-> Some(loop.sources),
         lookups |-> loop.lookups]

\* execute testing is_empty() before the error field
SearchExecute_empty_first(course_name, lesson_number, outcome) ==
    IF outcome.raised THEN [out |-> outcome, sources |-> None, lookups |-> <<>>]
    ELSE IF is_empty(outcome.value)
    THEN [out |-> Return("No relevant content found."), sources |-> None, lookups |-> <<>>]
    ELSE IF TruthyStr(outcome.value.error)
    THEN [out |-> Return(Val(outcome.value.error)), sources |-> None, lookups |-> <<>>]
    ELSE FormatResults(outcome.value)

\* CourseSearchTool.execute(query, course_name, lesson_number) when store.search
\* answers `outcome`: what execute returns or raises, and the list it assigns to
\* last_sources (None when it assigns nothing), and its calls of get_lesson_link
SearchExecute(course_name, lesson_number, outcome) ==
    IF outcome.raised THEN [out |-> outcome, sources |-> None, lookups |-> <<>>]
    ELSE
        LET results == outcome.value
        IN  IF TruthyStr(results.error)
            THEN [out |-> Return(Val(results.error)), sources |-> None, lookups |-> <<>>]
            ELSE IF is_empty(results)
            THEN [out |-> Return("No relevant content found"
                                 \o (IF TruthyStr(course_name)
                                     THEN " in course '" \o Val(course_name) \o "'"
                                     ELSE "")
                                 \o (IF TruthyInt(lesson_number)
                                     THEN " in lesson " \o ToString(Val(lesson_number))
                                     ELSE "")
                                 \o "."),
                  sources |-> None, lookups |-> <<>>]
            ELSE FormatResults(results)

-----------------------------------------------------------------------------
(* CourseOutlineTool                                                       *)

OutlineToolName == "get_course_outline"

\* Parsed JSON values, as far as _format_outline looks at them.
JList(items) == [kind |-> "list", items |-> items]
JDict(n) == [kind |-> "dict", size |-> n]
JInt(n) == [kind |-> "int", value |-> n]
JNull == [kind |-> "null"]
\* one lesson record; either key may be absent
JLesson(num, title) == [kind |-> "lesson", lesson_number |-> num, lesson_title |-> title]

\* json.loads on the serialized lesson lists the catalog may hold
JsonTexts ==
    { "[]",
      "[{\"lesson_number\": 1, \"lesson_title\": \"Basics\"}]",
      "[{\"lesson_number\": 1, \"lesson_title\": \"Basics\"}, {\"lesson_number\": 2, \"lesson_title\": \"More\"}]",
      "[{\"lesson_title\": \"Basics\"}]",
      "[1]",
      "{\"a\": 1}",
      "{}",
      "5",
      "null",
      "not json" }

json_loads(text) ==
    CASE text = "[]" -> Return(JList(<<>>))
      [] text = "[{\"lesson_number\": 1, \"lesson_title\": \"Basics\"}]"
            -> Return(JList(<<JLesson(Some(1), Some("Basics"))>>))
      [] text = "[{\"lesson_number\": 1, \"lesson_title\": \"Basics\"}, {\"lesson_number\": 2, \"lesson_title\": \"More\"}]"
            -> Return(JList(<<JLesson(Some(1), Some("Basics")),
                              JLesson(Some(2), Some("More"))>>))
      [] text = "[{\"lesson_title\": \"Basics\"}]"
            -> Return(JList(<<JLesson(None, Some("Basics"))>>))
      [] text = "[1]" -> Return(JList(<<JInt(1)>>))
      [] text = "{\"a\": 1}" -> Return(JDict(1))
      [] text = "{}" -> Return(JDict(0))
      [] text = "5" -> Return(JInt(5))
      [] text = "null" -> Return(JNull)
      [] OTHER -> Raise("JSONDecodeError", "Expecting value")

\* the stored lessons_json: absent, a text, or (not a str) None
LessonsAbsent == [stored |-> "absent"]
LessonsNull == [stored |-> "null"]
LessonsText(t) == [stored |-> "text", text |-> t]

StoredLessons == {LessonsAbsent, LessonsNull} \cup {LessonsText(t) : t \in JsonTexts}

\* metadata records the course catalog may hold for the resolved course
CourseMetadata(title, course_link, lessons_json) ==
    [title |-> title, course_link |-> course_link, lessons_json |-> lessons_json]

\* every stored lesson list with a title and a link, and a record of one lesson
\* without the title, without the link, and with neither
CourseMetadatas ==
    {CourseMetadata(Some("Intro to X"), Some("http://x"), l) : l \in StoredLessons}
    \cup {CourseMetadata(t, c, LessonsText("[{\"lesson_number\": 1, \"lesson_title\": \"Basics\"}]")) :
            t \in {Some("Intro to X"), None}, c \in {Some("http://x"), None}}

\* what the backend answers to an outline request: the course does not resolve,
\* course_catalog.get raises, it has no metadata, or it returns a metadata record
OutlineOutcomes ==
    { [resolved |-> None, catalog |-> "none"],
      [resolved |-> Some("Intro to X"), catalog |-> "raises"],
      [resolved |-> Some("Intro to X"), catalog |-> "nometa"] }
    \cup { [resolved |-> Some("Intro to X"), catalog |-> "ok", metadata |-> m] :
             m \in CourseMetadatas }

\* truth value of a parsed JSON value (`not lessons`)
JTruthy(j) ==
    CASE j.kind = "list" -> j.items # <<>>
      [] j.kind = "dict" -> j.size # 0
      [] j.kind = "int" -> j.value # 0
      [] OTHER -> FALSE

\* the line of a lesson without its number
LessonLine_title_only(lesson) ==
    "  " \o (IF IsNone(lesson.lesson_title) THEN "Untitled" ELSE Val(lesson.lesson_title))

\* the line of one lesson: f"  {lesson_num}. {lesson_title}"
LessonLine(lesson) ==
    "  " \o (IF IsNone(lesson.lesson_number) THEN "?"
             ELSE ToString(Val(lesson.lesson_number)))
         \o ". "
         \o (IF IsNone(lesson.lesson_title) THEN "Untitled"
             ELSE Val(lesson.lesson_title))

\* CourseOutlineTool._format_outline(title, course_link, lessons)
FormatOutline(title, course_link, lessons) ==
    LET head == <<"**" \o title \o "**">>
                \o (IF TruthyStr(course_link)
                    THEN <<"Course Link: " \o Val(course_link)>> ELSE <<>>)
                \o <<"">>
        src == Some(<<[title |-> title, url |-> course_link]>>)
    IN  IF ~JTruthy(lessons)
        THEN [out |-> Return(Join(head \o <<"This course has no lessons listed.">>, "\n")),
              sources |-> src]
        ELSE IF lessons.kind = "int"
        THEN \* len(lessons) on a number
             [out |-> Raise("TypeError", "object of type 'int' has no len()"),
              sources |-> None]
        ELSE IF lessons.kind = "dict"
        THEN \* iterating a dict yields its keys: str has no get
             [out |-> Raise("AttributeError", "'str' object has no attribute 'get'"),
              sources |-> None]
        ELSE IF \E i \in 1..Len(lessons.items) : lessons.items[i].kind # "lesson"
        THEN [out |-> Raise("AttributeError", "'int' object has no attribute 'get'"),
              sources |-> None]
        ELSE [out |-> Return(Join(head
                                  \o <<"**Lessons (" \o ToString(Len(lessons.items))
                                       \o " total):**">>
                                  \o [i \in 1..Len(lessons.items) |->
                                        LessonLine(lessons.items[i])],
                                  "\n")),
              sources |-> src]

\* CourseOutlineTool.execute(course_title) when the backend answers `outcome`
OutlineExecute(course_title, outcome) ==
    IF ~TruthyStr(outcome.resolved)
    THEN [out |-> Return("No course found matching '" \o course_title
                         \o "'. Please try a different course name."),
          sources |-> None]
    ELSE
        LET resolved_title == Val(outcome.resolved)
        IN  IF outcome.catalog = "raises"
            THEN [out |-> Return("Error retrieving course data: " \o "catalog down"),
                  sources |-> None]
            ELSE IF outcome.catalog = "nometa"
            THEN [out |-> Return("Course '" \o resolved_title
                                 \o "' found but metadata unavailable."),
                  sources |-> None]
            ELSE
                LET metadata == outcome.metadata
                    title == IF IsNone(metadata.title) THEN resolved_title
                             ELSE Val(metadata.title)
                    course_link == metadata.course_link
                    lessons_json == IF metadata.lessons_json.stored = "absent"
                                    THEN LessonsText("[]")
                                    ELSE metadata.lessons_json
                    parsed == IF lessons_json.stored = "null"
                              THEN Raise("TypeError",
                                         "the JSON object must be str, bytes or bytearray, not NoneType")
                              ELSE json_loads(lessons_json.text)
                IN  IF parsed.raised /\ parsed.exc = "JSONDecodeError"
                    THEN FormatOutline(title, course_link, JList(<<>>))
                    ELSE IF parsed.raised
                    THEN [out |-> parsed, sources |-> None]
                    ELSE FormatOutline(title, course_link, parsed.value)

-----------------------------------------------------------------------------
(* ToolManager                                                             *)

\* the tool objects that exist: one CourseSearchTool, two CourseOutlineTools, and
\* two other implementations of Tool, one whose definition has no "name" and one
\* whose definition has the name ""
SearchTools == {"search1"}
OutlineTools == {"outline1", "outline2"}
NamelessTools == {"nameless1"}
EmptyNameTools == {"emptyname1"}
ToolInstances == SearchTools \cup OutlineTools \cup NamelessTools \cup EmptyNameTools

\* tool.get_tool_definition(): a dict, with the keys the model looks at
get_tool_definition(tool) ==
    IF tool \in SearchTools
    THEN [name |-> SearchToolName, required |-> <<"query">>]
    ELSE IF tool \in OutlineTools
    THEN [name |-> OutlineToolName, required |-> <<"course_title">>]
    ELSE IF tool \in EmptyNameTools
    THEN [name |-> "", required |-> <<>>]
    ELSE [required |-> <<>>]

\* tool_def.get("name")
GetName(tool_def) ==
    IF "name" \in DOMAIN tool_def THEN Some(tool_def.name) ELSE None

\* keys of a dict kept as the sequence of its items
Keys(d) == {d[i].name : i \in 1..Len(d)}

\* d[k], for k in d
Lookup(d, k) == (CHOOSE i \in 1..Len(d) : d[i].name = k)

\* d[k] = v: an existing key keeps its position, a new key goes last
DictSet(d, k, v) ==
    IF k \in Keys(d)
    THEN [i \in 1..Len(d) |-> IF d[i].name = k THEN [name |-> k, tool |-> v] ELSE d[i]]
    ELSE Append(d, [name |-> k, tool |-> v])

\* register_tool testing `tool_name is None` instead of `not tool_name`
register_tool_none_only(d, tool) ==
    LET tool_name == GetName(get_tool_definition(tool))
    IN  IF tool_name = None
        THEN [tools |-> d,
              out |-> Raise("ValueError", "Tool must have a 'name' in its definition")]
        ELSE [tools |-> DictSet(d, Val(tool_name), tool), out |-> Return("None")]

\* ToolManager.register_tool(tool): the dict afterwards, and what the call returns or raises
register_tool(d, tool) ==
    LET tool_def == get_tool_definition(tool)
        tool_name == GetName(tool_def)
    IN  IF ~TruthyStr(tool_name)
        THEN [tools |-> d,
              out |-> Raise("ValueError", "Tool must have a 'name' in its definition")]
        ELSE [tools |-> DictSet(d, Val(tool_name), tool), out |-> Return("None")]

\* get_tool_definitions going through the dict backwards
get_tool_definitions_reversed(d) ==
    [i \in 1..Len(d) |-> get_tool_definition(d[Len(d) + 1 - i].tool)]

\* ToolManager.get_tool_definitions()
get_tool_definitions(d) == [i \in 1..Len(d) |-> get_tool_definition(d[i].tool)]

\* tool.execute(**kwargs) with the backend answering `outcome`
ToolExecute(tool, kwargs, outcome) ==
    IF tool \in SearchTools
    THEN SearchExecute(kwargs.course_name, kwargs.lesson_number, outcome)
    ELSE IF tool \in OutlineTools
    THEN LET r == OutlineExecute(kwargs.course_title, outcome)
         IN  [out |-> r.out, sources |-> r.sources, lookups |-> <<>>]
    ELSE [out |-> Return("ok"), sources |-> None, lookups |-> <<>>]

\* the message of execute_tool for a name that is not registered
NotFoundMessage(tool_name) == "Tool '" \o tool_name \o "' not found"

\* execute_tool without the membership test: self.tools[tool_name] raises KeyError
execute_tool_unchecked(d, tool_name, kwargs, outcome) ==
    IF tool_name \notin Keys(d)
    THEN [out |-> Raise("KeyError", tool_name), invoked |-> None, sources |-> None,
          lookups |-> <<>>]
    ELSE
        LET tool == d[Lookup(d, tool_name)].tool
            r == ToolExecute(tool, kwargs, outcome)
        IN  [out |-> r.out, invoked |-> Some(tool), sources |-> r.sources,
             lookups |-> r.lookups]

\* ToolManager.execute_tool(tool_name, **kwargs): what it returns or raises, the
\* tool whose execute() ran (None when none did) and the list that run assigned
\* to the tool's last_sources (None when it assigned nothing)
execute_tool(d, tool_name, kwargs, outcome) ==
    IF tool_name \notin Keys(d)
    THEN [out |-> Return(NotFoundMessage(tool_name)), invoked |-> None, sources |-> None,
          lookups |-> <<>>]
    ELSE
        LET tool == d[Lookup(d, tool_name)].tool
            r == ToolExecute(tool, kwargs, outcome)
        IN  [out |-> r.out, invoked |-> Some(tool), sources |-> r.sources,
             lookups |-> r.lookups]

\* last_sources of every tool after an execute_tool with result r
SourcesAfter(ls, r) ==
    IF r.invoked # None /\ r.sources # None
    THEN [ls EXCEPT ![Val(r.invoked)] = Val(r.sources)]
    ELSE ls

\* get_last_sources keeping the last non-empty list of the scan instead of
\* returning at the first
get_last_sources_last(d, ls) ==
    IF \E i \in 1..Len(d) : ls[d[i].tool] # <<>>
    THEN LET last == CHOOSE i \in 1..Len(d) :
                       /\ ls[d[i].tool] # <<>>
                       /\ \A j \in (i + 1)..Len(d) : ls[d[j].tool] = <<>>
         IN  ls[d[last].tool]
    ELSE <<>>

\* ToolManager.get_last_sources()
get_last_sources(d, ls) ==
    IF \E i \in 1..Len(d) : ls[d[i].tool] # <<>>
    THEN LET first == CHOOSE i \in 1..Len(d) :
                        /\ ls[d[i].tool] # <<>>
                        /\ \A j \in 1..(i - 1) : ls[d[j].tool] = <<>>
         IN  ls[d[first].tool]
    ELSE <<>>

\* reset_sources stopping after the first tool
reset_sources_first(d, ls) ==
    [t \in ToolInstances |->
        IF d # <<>> /\ d[1].tool = t THEN <<>> ELSE ls[t]]

\* ToolManager.reset_sources(): last_sources of every tool afterwards
reset_sources(d, ls) ==
    [t \in ToolInstances |->
        IF \E i \in 1..Len(d) : d[i].tool = t THEN <<>> ELSE ls[t]]

-----------------------------------------------------------------------------
(* Inputs of the registry operations                                       *)

\* names execute_tool is called with: the two registered names and a hallucinated one
ToolNames == {SearchToolName, OutlineToolName, "nonexistent_tool"}

\* keyword arguments of a search: course_name and lesson_number are optional
SearchKwargs ==
    [course_name : {None, Some("Physics")},
     lesson_number : {None, Some(0), Some(3)}]

DefaultSearchKwargs == [course_name |-> None, lesson_number |-> None]

\* a search with nothing found and no error
NothingFound == Return(SearchResults(<<>>, <<>>, None))

\* the calls of execute_tool under a name, each with what the backend answers:
\* the filters are varied where execute reads them (nothing found), every other
\* answer comes with the default arguments
CallsFor(tool_name, maxChunks) ==
    IF tool_name = OutlineToolName
    THEN {[kwargs |-> [course_title |-> "Intro"], outcome |-> o] : o \in OutlineOutcomes}
    ELSE IF tool_name = SearchToolName
    THEN {[kwargs |-> DefaultSearchKwargs, outcome |-> o] : o \in SearchOutcomes(maxChunks)}
         \cup {[kwargs |-> k, outcome |-> NothingFound] : k \in SearchKwargs}
    ELSE {[kwargs |-> DefaultSearchKwargs, outcome |-> NothingFound]}

-----------------------------------------------------------------------------
(* State after construction                                                *)

\* ToolManager.__init__, the tools' __init__
InitTools ==
    /\ tools = <<>>
    /\ last_sources = [t \in ToolInstances |-> <<>>]
    /\ ret = [op |-> "init"]
    /\ last_executed = [tool |-> None, sources |-> None]
    /\ registrations = [names |-> <<>>, entered |-> <<>>]

NoResponse == [stop_reason |-> "", content |-> <<>>]

\* no generate_response invocation is in progress
InitGen ==
    /\ pc = "idle"
    /\ api_params = [messages |-> <<>>, system |-> "", tools |-> None, tool_choice |-> None]
    /\ tool_manager = FALSE
    /\ messages = <<>>
    /\ current_response = NoResponse
    /\ rounds_completed = 0
    /\ tool_results = <<>>
    /\ block_idx = 0
    /\ answer = [op |-> "none"]
    /\ calls = <<>>
    /\ execs = <<>>

\* the queries that may be served at the same time on the one registry
QueryIds == {1, 2}

\* a query that has not started; priv is what the executions of the query alone
\* would have left in the tools' last_sources
NotStarted ==
    [pc |-> "idle", read |-> None, overlapped |-> FALSE, executed |-> 0,
     priv |-> [t \in ToolInstances |-> <<>>]]

InitQueries ==
    /\ queries = [q \in QueryIds |-> NotStarted]
    /\ producer = [t \in ToolInstances |-> 0]

\* identities of list objects: one per tool, one held by a caller, one being made
ListIds == 1..(Cardinality(ToolInstances) + 2)

\* the list objects still referenced: by a tool's attribute or by the caller
InUse(b, h) ==
    {b[t] : t \in ToolInstances} \cup (IF h = None THEN {} ELSE {Val(h).id})

\* the identity of a newly made list: one that names no referenced object
Fresh(b, h) ==
    CHOOSE n \in ListIds \ InUse(b, h) : \A m \in ListIds \ InUse(b, h) : n <= m

\* the objects after those no longer referenced are gone
Collected(b, l, h) ==
    [n \in ListIds |-> IF n \in InUse(b, h) THEN l[n] ELSE <<>>]

\* an assignment that changes the list the attribute names, in place
SetLastSources_in_place(o, h, t, contents) ==
    [bound |-> o.bound, lists |-> [o.lists EXCEPT ![o.bound[t]] = contents]]

\* tool.last_sources = <a list made by the right-hand side>: the attribute of
\* tool t names a new list; the list it named before is not touched
SetLastSources(o, h, t, contents) ==
    LET n == Fresh(o.bound, h)
        b == [o.bound EXCEPT ![t] = n]
    IN  [bound |-> b, lists |-> Collected(b, [o.lists EXCEPT ![n] = contents], h)]

\* ToolManager.reset_sources() on the list objects: the loop from item i on
RECURSIVE ResetFrom(_, _, _, _)
ResetFrom(d, i, o, h) ==
    IF i > Len(d) THEN o
    ELSE ResetFrom(d, i + 1, SetLastSources(o, h, d[i].tool, <<>>), h)

\* ToolManager.get_last_sources() on the list objects: the list returned and
\* the objects afterwards. The list of the first tool whose list is not empty
\* is returned itself; `return []` makes a new list.
GetFrom(d, o) ==
    IF \E i \in 1..Len(d) : o.lists[o.bound[d[i].tool]] # <<>>
    THEN LET first == CHOOSE i \in 1..Len(d) :
                        /\ o.lists[o.bound[d[i].tool]] # <<>>
                        /\ \A j \in 1..(i - 1) : o.lists[o.bound[d[j].tool]] = <<>>
             h == Some([id |-> o.bound[d[first].tool],
                        contents |-> o.lists[o.bound[d[first].tool]],
                        since |-> {}])
         IN  [held |-> h, lists |-> Collected(o.bound, o.lists, h)]
    ELSE LET n == Fresh(o.bound, None)
             h == Some([id |-> n, contents |-> <<>>, since |-> {}])
         IN  [held |-> h, lists |-> Collected(o.bound, [o.lists EXCEPT ![n] = <<>>], h)]

\* every tool's __init__ makes its own empty list; no caller holds one
InitLists ==
    /\ lists = [n \in ListIds |-> <<>>]
    /\ bound = CHOOSE f \in [ToolInstances -> ListIds] :
                  \A s, t \in ToolInstances : s # t => f[s] # f[t]
    /\ held = None

Init == InitTools /\ InitGen /\ InitQueries /\ InitLists

-----------------------------------------------------------------------------
(* The registry's operations, called by its owner                          *)

\* s without the elements of the set X
Without(s, X) == SelectSeq(s, LAMBDA e : e \notin X)

\* the history of registrations after tool was registered under tool_name: a new
\* name goes last; a tool that was not in the registry enters it last, and the
\* tool it replaces under its name leaves
Registered(h, tool_name, tool, replaced) ==
    [names |-> IF \E i \in 1..Len(h.names) : h.names[i] = tool_name
               THEN h.names ELSE Append(h.names, tool_name),
     entered |-> IF \E i \in 1..Len(h.entered) : h.entered[i] = tool
                 THEN h.entered
                 ELSE Append(Without(h.entered, replaced), tool)]

RegisterTool(tool) ==
    \E r \in {register_tool(tools, tool)} :
        /\ tools' = r.tools
        /\ ret' = [op |-> "register_tool", tool |-> tool, out |-> r.out]
        /\ registrations' =
             IF r.out.raised THEN registrations
             ELSE LET tool_name == Val(GetName(get_tool_definition(tool)))
                  IN  Registered(registrations, tool_name, tool,
                                 {tools[i].tool : i \in {j \in 1..Len(tools) :
                                                           tools[j].name = tool_name}})
        /\ UNCHANGED <<last_sources, last_executed>>
        /\ UNCHANGED genVars
        /\ UNCHANGED <<qVars, aVars>>

GetToolDefinitions ==
    /\ ret' = [op |-> "get_tool_definitions", out |-> Return(get_tool_definitions(tools))]
    /\ UNCHANGED <<tools, last_sources, last_executed, registrations>>
    /\ UNCHANGED genVars
    /\ UNCHANGED <<qVars, aVars>>

ExecuteTool(tool_name, kwargs, outcome) ==
    \E r \in {execute_tool(tools, tool_name, kwargs, outcome)} :
        /\ last_sources' = SourcesAfter(last_sources, r)
        /\ ret' = [op |-> "execute_tool", tool_name |-> tool_name, kwargs |-> kwargs,
                   backend |-> outcome, invoked |-> r.invoked, out |-> r.out,
                   lookups |-> r.lookups]
        /\ last_executed' = IF r.invoked # None
                            THEN [tool |-> r.invoked, sources |-> r.sources]
                            ELSE last_executed
        /\ UNCHANGED <<tools, registrations>>
        /\ UNCHANGED genVars
        /\ UNCHANGED <<qVars, aVars>>

GetLastSources ==
    /\ ret' = [op |-> "get_last_sources", out |-> Return(get_last_sources(tools, last_sources))]
    /\ UNCHANGED <<tools, last_sources, last_executed, registrations>>
    /\ UNCHANGED genVars
    /\ UNCHANGED <<qVars, aVars>>

ResetSources ==
    /\ last_sources' = reset_sources(tools, last_sources)
    /\ ret' = [op |-> "reset_sources", out |-> Return("None")]
    /\ UNCHANGED <<tools, last_executed, registrations>>
    /\ UNCHANGED genVars
    /\ UNCHANGED <<qVars, aVars>>

Next ==
    \/ \E tool \in ToolInstances : RegisterTool(tool)
    \/ GetToolDefinitions
    \/ \E tool_name \in ToolNames :
         \E call \in CallsFor(tool_name, MaxChunks) :
           ExecuteTool(tool_name, call.kwargs, call.outcome)
    \/ GetLastSources
    \/ ResetSources

Spec == Init /\ [][Next]_vars

-----------------------------------------------------------------------------
(* AIGenerator: the model service, an external collaborator                *)

MAX_TOOL_ROUNDS == 2

SYSTEM_PROMPT == "You are an AI assistant specialized in course materials"

TextBlock(text) == [type |-> "text", text |-> text]
ToolUseBlock(id, name, input) == [type |-> "tool_use", id |-> id, name |-> name, input |-> input]

\* the shapes of a content block: a text, or a request for a search
BlockShapes == {"text", "tool_use"}

\* the block of shape `shape` at position i of the response to the n-th request;
\* the service gives every tool-use block an identifier of its own
Block(shape, n, i) ==
    IF shape = "text"
    THEN TextBlock("text " \o ToString(n) \o "." \o ToString(i))
    ELSE ToolUseBlock("toolu_" \o ToString(n) \o "_" \o ToString(i),
                      SearchToolName, DefaultSearchKwargs)

Response(stop_reason, content) == [stop_reason |-> stop_reason, content |-> content]

\* what client.messages.create may answer to the n-th request: a response with
\* any stop reason and any list of at most maxBlocks blocks, or an exception
CreateOutcomes(n, maxBlocks) ==
    {Return(Response(sr, [i \in 1..Len(shapes) |-> Block(shapes[i], n, i)])) :
        sr \in {"tool_use", "end_turn"}, shapes \in SeqsUpTo(BlockShapes, maxBlocks)}
    \cup {Raise("APIConnectionError", "Connection error.")}

\* what the backend answers to a search requested by the model: one chunk, or
\* an exception
ModelSearchOutcomes ==
    {Return(ChunkResults(<<[course_title |-> Some("CourseA"), lesson_number |-> Some(1)]>>)),
     SearchRaises}

\* message contents: a plain string, or a list of blocks
StrContent(str) == [kind |-> "str", str |-> str]
ListContent(blocks) == [kind |-> "list", blocks |-> blocks]

Message(role, content) == [role |-> role, content |-> content]

ToolResult(tool_use_id, content) ==
    [type |-> "tool_result", tool_use_id |-> tool_use_id, content |-> content]

-----------------------------------------------------------------------------
(* AIGenerator.generate_response and _handle_tool_execution                *)

\* the system content of a query
SystemContent(conversation_history) ==
    IF TruthyStr(conversation_history)
    THEN SYSTEM_PROMPT \o "\n\nPrevious conversation:\n" \o Val(conversation_history)
    ELSE SYSTEM_PROMPT

\* api_params of generate_response; tls is the tools argument
ApiParams(query, conversation_history, tls) ==
    [messages |-> <<Message("user", StrContent(query))>>,
     system |-> SystemContent(conversation_history),
     tools |-> IF tls # None /\ Val(tls) # <<>> THEN tls ELSE None,
     tool_choice |-> IF tls # None /\ Val(tls) # <<>> THEN Some("auto") ELSE None]

\* next_params built like final_params, without tools
NextParams_without_tools(base_params, msgs) ==
    [messages |-> msgs, system |-> base_params.system, tools |-> None, tool_choice |-> None]

\* next_params of a round: the tools of the first request, or [] when it had none
NextParams(base_params, msgs) ==
    [messages |-> msgs,
     system |-> base_params.system,
     tools |-> IF base_params.tools # None THEN base_params.tools ELSE Some(<<>>),
     tool_choice |-> Some("auto")]

\* final_params built like next_params
FinalParams_with_tools(base_params, msgs) == NextParams(base_params, msgs)

\* final_params: no tools and no tool_choice
FinalParams(base_params, msgs) ==
    [messages |-> msgs, system |-> base_params.system, tools |-> None, tool_choice |-> None]

\* the direct return of generate_response: response.content[0].text
FirstBlockText(response) ==
    IF response.content = <<>>
    THEN Raise("IndexError", "list index out of range")
    ELSE IF response.content[1].type # "text"
    THEN Raise("AttributeError", "'ToolUseBlock' object has no attribute 'text'")
    ELSE Return(response.content[1].text)

\* _extract_text_response written like the direct return of generate_response
_extract_text_response_first(response) == FirstBlockText(response)

\* AIGenerator._extract_text_response: the text of the first text block, "" when
\* there is none
_extract_text_response(response) ==
    IF \E i \in 1..Len(response.content) : response.content[i].type = "text"
    THEN Return(response.content[CHOOSE i \in 1..Len(response.content) :
                                   /\ response.content[i].type = "text"
                                   /\ \A j \in 1..(i - 1) :
                                        response.content[j].type # "text"].text)
    ELSE Return("")

\* the result of a block without the prefix of a failure
ToolResultContent_bare(out) ==
    IF out.raised THEN out.msg ELSE out.value

\* the result of one tool-use block: what execute_tool returned, or the text
\* standing for the exception it raised
ToolResultContent(out) ==
    IF out.raised THEN "Tool execution failed: " \o out.msg ELSE out.value

\* generate_response up to the first request (lines 78-94)
GenerateResponse(query, conversation_history, tls, tm) ==
    /\ pc = "idle"
    /\ api_params' = ApiParams(query, conversation_history, tls)
    /\ tool_manager' = tm
    /\ pc' = "initial_call"
    /\ UNCHANGED <<messages, current_response, rounds_completed, tool_results,
                   block_idx, answer, calls, execs>>
    /\ UNCHANGED tmVars
    /\ UNCHANGED <<qVars, aVars>>

\* the first request and what generate_response does with its answer (lines 97-104
\* and, entering the tool loop, lines 123-125)
InitialCall(outcome) ==
    /\ pc = "initial_call"
    /\ calls' = Append(calls, [kind |-> "initial", params |-> api_params, outcome |-> outcome])
    /\ IF outcome.raised
       THEN /\ answer' = outcome
            /\ pc' = "done"
            /\ UNCHANGED <<messages, current_response, rounds_completed>>
       ELSE IF outcome.value.stop_reason = "tool_use" /\ tool_manager
       THEN /\ messages' = api_params.messages
            /\ current_response' = outcome.value
            /\ rounds_completed' = 0
            /\ pc' = "loop"
            /\ UNCHANGED answer
       ELSE /\ answer' = FirstBlockText(outcome.value)
            /\ current_response' = outcome.value
            /\ pc' = "done"
            /\ UNCHANGED <<messages, rounds_completed>>
    /\ UNCHANGED <<api_params, tool_manager, tool_results, block_idx, execs>>
    /\ UNCHANGED tmVars
    /\ UNCHANGED <<qVars, aVars>>

\* the loop test with <= for <
LoopTest_inclusive(rounds) == rounds <= MAX_TOOL_ROUNDS

\* the test of the while loop (line 127)
LoopTest(rounds) == rounds < MAX_TOOL_ROUNDS

\* a round started without the loop test
StartRound_untested ==
    /\ pc = "loop"
    /\ messages' = Append(messages,
                          Message("assistant", ListContent(current_response.content)))
    /\ tool_results' = <<>>
    /\ block_idx' = 1
    /\ pc' = "blocks"
    /\ UNCHANGED <<api_params, tool_manager, current_response, rounds_completed,
                   answer, calls, execs>>
    /\ UNCHANGED tmVars
    /\ UNCHANGED <<qVars, aVars>>

\* the loop test succeeds: a round starts (lines 127-132)
StartRound ==
    /\ pc = "loop"
    /\ LoopTest(rounds_completed)
    /\ messages' = Append(messages,
                          Message("assistant", ListContent(current_response.content)))
    /\ tool_results' = <<>>
    /\ block_idx' = 1
    /\ pc' = "blocks"
    /\ UNCHANGED <<api_params, tool_manager, current_response, rounds_completed,
                   answer, calls, execs>>
    /\ UNCHANGED tmVars
    /\ UNCHANGED <<qVars, aVars>>

\* one iteration of the loop over the content blocks (lines 133-148); the
\* backend answers `outcome` when the block is a tool call
ExecBlock(outcome) ==
    /\ pc = "blocks"
    /\ block_idx <= Len(current_response.content)
    /\ current_response.content[block_idx].type = "tool_use"
    /\ LET content_block == current_response.content[block_idx]
       IN  \E r \in {execute_tool(tools, content_block.name,
                                  content_block.input, outcome)} :
             /\ tool_results' = Append(tool_results,
                                       ToolResult(content_block.id,
                                                  ToolResultContent(r.out)))
             /\ last_sources' = SourcesAfter(last_sources, r)
             /\ ret' = [op |-> "execute_tool", tool_name |-> content_block.name,
                        kwargs |-> content_block.input, backend |-> outcome,
                        invoked |-> r.invoked, out |-> r.out, lookups |-> r.lookups]
             /\ last_executed' = IF r.invoked # None
                                 THEN [tool |-> r.invoked, sources |-> r.sources]
                                 ELSE last_executed
             /\ execs' = Append(execs, [id |-> content_block.id,
                                        round |-> rounds_completed,
                                        calls |-> Len(calls),
                                        out |-> r.out])
    /\ block_idx' = block_idx + 1
    /\ UNCHANGED <<api_params, tool_manager, messages, current_response,
                   rounds_completed, answer, calls, pc>>
    /\ UNCHANGED <<tools, registrations>>
    /\ UNCHANGED <<qVars, aVars>>

\* an iteration over a block that is no tool call (line 134 is false)
SkipBlock ==
    /\ pc = "blocks"
    /\ block_idx <= Len(current_response.content)
    /\ current_response.content[block_idx].type # "tool_use"
    /\ block_idx' = block_idx + 1
    /\ UNCHANGED <<api_params, tool_manager, messages, current_response,
                   rounds_completed, tool_results, answer, calls, execs, pc>>
    /\ UNCHANGED tmVars
    /\ UNCHANGED <<qVars, aVars>>

\* the end of a round without the test `if tool_results`
EndRound_unguarded ==
    /\ pc = "blocks"
    /\ block_idx > Len(current_response.content)
    /\ messages' = Append(messages, Message("user", ListContent(tool_results)))
    /\ rounds_completed' = rounds_completed + 1
    /\ pc' = "next_call"
    /\ UNCHANGED <<api_params, tool_manager, current_response, tool_results,
                   block_idx, answer, calls, execs>>
    /\ UNCHANGED tmVars
    /\ UNCHANGED <<qVars, aVars>>

\* the loop over the blocks is over: the results are added and the round is
\* counted (lines 150-154)
EndRound ==
    /\ pc = "blocks"
    /\ block_idx > Len(current_response.content)
    /\ messages' = IF tool_results # <<>>
                   THEN Append(messages, Message("user", ListContent(tool_results)))
                   ELSE messages
    /\ rounds_completed' = rounds_completed + 1
    /\ pc' = "next_call"
    /\ UNCHANGED <<api_params, tool_manager, current_response, tool_results,
                   block_idx, answer, calls, execs>>
    /\ UNCHANGED tmVars
    /\ UNCHANGED <<qVars, aVars>>

\* the request that follows a round and what the loop does with its answer
\* (lines 157-172)
NextCall(outcome) ==
    /\ pc = "next_call"
    /\ calls' = Append(calls, [kind |-> "next", params |-> NextParams(api_params, messages),
                               outcome |-> outcome])
    /\ IF outcome.raised
       THEN /\ answer' = outcome
            /\ pc' = "done"
            /\ UNCHANGED current_response
       ELSE IF outcome.value.stop_reason # "tool_use"
       THEN /\ answer' = _extract_text_response(outcome.value)
            /\ pc' = "done"
            /\ UNCHANGED current_response
       ELSE /\ current_response' = outcome.value
            /\ pc' = "loop"
            /\ UNCHANGED answer
    /\ UNCHANGED <<api_params, tool_manager, messages, rounds_completed,
                   tool_results, block_idx, execs>>
    /\ UNCHANGED tmVars
    /\ UNCHANGED <<qVars, aVars>>

\* the final request inside a try/except that answers "" when the service fails
FinalCall_catches(outcome) ==
    /\ pc = "loop"
    /\ ~LoopTest(rounds_completed)
    /\ calls' = Append(calls, [kind |-> "final", params |-> FinalParams(api_params, messages),
                               outcome |-> outcome])
    /\ answer' = IF outcome.raised THEN Return("")
                 ELSE _extract_text_response(outcome.value)
    /\ pc' = "done"
    /\ UNCHANGED <<api_params, tool_manager, messages, current_response,
                   rounds_completed, tool_results, block_idx, execs>>
    /\ UNCHANGED tmVars
    /\ UNCHANGED <<qVars, aVars>>

\* the loop test fails: the final request, without tools (lines 174-181)
FinalCall(outcome) ==
    /\ pc = "loop"
    /\ ~LoopTest(rounds_completed)
    /\ calls' = Append(calls, [kind |-> "final", params |-> FinalParams(api_params, messages),
                               outcome |-> outcome])
    /\ answer' = IF outcome.raised THEN outcome
                 ELSE _extract_text_response(outcome.value)
    /\ pc' = "done"
    /\ UNCHANGED <<api_params, tool_manager, messages, current_response,
                   rounds_completed, tool_results, block_idx, execs>>
    /\ UNCHANGED tmVars
    /\ UNCHANGED <<qVars, aVars>>

\* the registry as the application sets it up before it serves queries: the
\* search tool, then the outline tool
ServingTools == register_tool(register_tool(<<>>, "search1").tools, "outline1").tools

InitServing ==
    /\ tools = ServingTools
    /\ last_sources = [t \in ToolInstances |-> <<>>]
    /\ ret = [op |-> "init"]
    /\ last_executed = [tool |-> None, sources |-> None]
    /\ registrations = [names |-> <<SearchToolName, OutlineToolName>>,
                        entered |-> <<"search1", "outline1">>]
    /\ InitGen
    /\ InitQueries
    /\ InitLists

\* the arguments of generate_response: with and without a conversation
\* history, tool definitions and a registry, every two of the choices combined
History == Some("User: hi\nAssistant: hello")
Definitions == Some(get_tool_definitions(ServingTools))

GenerateArguments ==
    { [conversation_history |-> History, tools |-> Definitions, tool_manager |-> TRUE],
      [conversation_history |-> None, tools |-> None, tool_manager |-> TRUE],
      [conversation_history |-> None, tools |-> Definitions, tool_manager |-> FALSE],
      [conversation_history |-> History, tools |-> None, tool_manager |-> FALSE] }

\* what the model service may answer to each request of an invocation
ModelOutcomes == [n \in 1..(MAX_TOOL_ROUNDS + 3) |-> CreateOutcomes(n, MaxBlocks)]

\* a step of the invocation in progress
GenStep ==
    \/ \E outcome \in ModelOutcomes[Len(calls) + 1] : InitialCall(outcome)
    \/ StartRound
    \/ \E outcome \in ModelSearchOutcomes : ExecBlock(outcome)
    \/ SkipBlock
    \/ EndRound
    \/ \E outcome \in ModelOutcomes[Len(calls) + 1] : NextCall(outcome)
    \/ \E outcome \in ModelOutcomes[Len(calls) + 1] : FinalCall(outcome)

NextGen ==
    \/ \E args \in GenerateArguments :
         GenerateResponse("What is MCP?", args.conversation_history, args.tools,
                          args.tool_manager)
    \/ GenStep

\* one generate_response invocation
SpecGen == InitServing /\ [][NextGen]_vars

\* the invocation runs on: no step of it is postponed forever
FairSpecGen == SpecGen /\ WF_vars(GenStep)

-----------------------------------------------------------------------------
(* Queries served concurrently on one ToolManager.  Each query is one       *)
(* control flow: its generation executes tools through the registry, then   *)
(* the orchestrator reads get_last_sources() and calls reset_sources().     *)
(* Nothing synchronizes the queries: their steps interleave freely.  A step *)
(* is one call on the registry.                                             *)

\* most tool executions of one query's generation
MaxQueryExecs == 2

\* the positions of a query between its start and its reset
Active == {"generating", "generated", "read"}

\* another query than q is between its start and its reset
OthersActive(q) == \E p \in QueryIds \ {q} : queries[p].pc \in Active

\* the queries after query q has taken a step that leaves it as `rec`: the step
\* falls into the course of every other query that is active
Stepped(q, rec) ==
    [p \in QueryIds |->
        IF p = q THEN rec
        ELSE IF queries[p].pc \in Active
        THEN [queries[p] EXCEPT !.overlapped = TRUE]
        ELSE queries[p]]

\* the tool calls the generation of query q may make, with the backend's answer:
\* a search that finds a chunk of lesson q, a search that finds nothing, and an
\* outline
QueryCalls(q) ==
    { [tool_name |-> SearchToolName, kwargs |-> DefaultSearchKwargs,
       outcome |-> Return(ChunkResults(<<[course_title |-> Some("CourseA"),
                                          lesson_number |-> Some(q)]>>))],
      [tool_name |-> SearchToolName, kwargs |-> DefaultSearchKwargs,
       outcome |-> NothingFound],
      [tool_name |-> OutlineToolName, kwargs |-> [course_title |-> "Intro"],
       outcome |-> [resolved |-> Some("Intro to X"), catalog |-> "ok",
                    metadata |-> CourseMetadata(Some("Intro to X"), Some("http://x"),
                                                LessonsAbsent)]] }

\* the query whose execution produced the list get_last_sources() returns (0
\* when it returns the empty list of no tool)
ProducerOfLast(d, ls, pr) ==
    IF \E i \in 1..Len(d) : ls[d[i].tool] # <<>>
    THEN pr[d[CHOOSE i \in 1..Len(d) :
                /\ ls[d[i].tool] # <<>>
                /\ \A j \in 1..(i - 1) : ls[d[j].tool] = <<>>].tool]
    ELSE 0

\* the orchestrator starts to serve query q
QStart(q) ==
    /\ queries[q].pc = "idle"
    /\ queries' = Stepped(q, [queries[q] EXCEPT !.pc = "generating",
                                                !.overlapped = OthersActive(q)])
    /\ UNCHANGED <<producer>>
    /\ UNCHANGED tmVars
    /\ UNCHANGED genVars
    /\ UNCHANGED aVars

\* the generation of query q executes a tool (ai_generator.py line 136)
QExecute(q, tool_name, kwargs, outcome) ==
    /\ queries[q].pc = "generating"
    /\ queries[q].executed < MaxQueryExecs
    /\ \E r \in {execute_tool(tools, tool_name, kwargs, outcome)} :
         /\ last_sources' = SourcesAfter(last_sources, r)
         /\ producer' = IF r.invoked # None /\ r.sources # None
                        THEN [producer EXCEPT ![Val(r.invoked)] = q]
                        ELSE producer
         /\ queries' = Stepped(q, [queries[q] EXCEPT
                                     !.priv = SourcesAfter(@, r),
                                     !.executed = @ + 1])
         /\ ret' = [op |-> "execute_tool", tool_name |-> tool_name, kwargs |-> kwargs,
                    backend |-> outcome, invoked |-> r.invoked, out |-> r.out,
                    lookups |-> r.lookups]
         /\ last_executed' = IF r.invoked # None
                             THEN [tool |-> r.invoked, sources |-> r.sources]
                             ELSE last_executed
    /\ UNCHANGED <<tools, registrations>>
    /\ UNCHANGED genVars
    /\ UNCHANGED aVars

\* the generation of query q returns its answer
QGenerated(q) ==
    /\ queries[q].pc = "generating"
    /\ queries' = Stepped(q, [queries[q] EXCEPT !.pc = "generated"])
    /\ UNCHANGED <<producer>>
    /\ UNCHANGED tmVars
    /\ UNCHANGED genVars
    /\ UNCHANGED aVars

\* the orchestrator reads the sources of query q: get_last_sources()
QRead(q) ==
    /\ queries[q].pc = "generated"
    /\ queries' = Stepped(q, [queries[q] EXCEPT
                                !.pc = "read",
                                !.read = Some([sources |-> get_last_sources(tools, last_sources),
                                               from |-> ProducerOfLast(tools, last_sources,
                                                                       producer)])])
    /\ ret' = [op |-> "get_last_sources", out |-> Return(get_last_sources(tools, last_sources))]
    /\ UNCHANGED <<tools, last_sources, last_executed, registrations, producer>>
    /\ UNCHANGED genVars
    /\ UNCHANGED aVars

\* the orchestrator clears the sources after it has read them: reset_sources()
QReset(q) ==
    /\ queries[q].pc = "read"
    /\ queries' = Stepped(q, [queries[q] EXCEPT !.pc = "done"])
    /\ last_sources' = reset_sources(tools, last_sources)
    /\ producer' = [t \in ToolInstances |->
                      IF last_sources'[t] = <<>> THEN 0 ELSE producer[t]]
    /\ ret' = [op |-> "reset_sources", out |-> Return("None")]
    /\ UNCHANGED <<tools, last_executed, registrations>>
    /\ UNCHANGED genVars
    /\ UNCHANGED aVars

NextConc ==
    \E q \in QueryIds :
        \/ QStart(q)
        \/ \E call \in QueryCalls(q) : QExecute(q, call.tool_name, call.kwargs, call.outcome)
        \/ QGenerated(q)
        \/ QRead(q)
        \/ QReset(q)

\* two queries on the registry of the application, not synchronized
SpecConc == InitServing /\ [][NextConc]_vars

-----------------------------------------------------------------------------
(* A caller that keeps the list get_last_sources() returned while the      *)
(* registry goes on executing tools and resetting sources.                 *)

\* the operation op has been called since the caller obtained its list
Since(op) ==
    IF held = None THEN None ELSE Some([Val(held) EXCEPT !.since = @ \cup {op}])

\* the caller obtains a list: get_last_sources()
HeldGet ==
    /\ \E g \in {GetFrom(tools, [bound |-> bound, lists |-> lists])} :
         /\ held' = g.held
         /\ lists' = g.lists
    /\ ret' = [op |-> "get_last_sources", out |-> Return(get_last_sources(tools, last_sources))]
    /\ UNCHANGED <<tools, last_sources, last_executed, registrations, bound>>
    /\ UNCHANGED <<genVars, qVars>>

\* reset_sources() while the caller holds its list
HeldReset ==
    /\ \E o \in {ResetFrom(tools, 1, [bound |-> bound, lists |-> lists], held)} :
         /\ bound' = o.bound
         /\ lists' = o.lists
    /\ held' = Since("reset_sources")
    /\ last_sources' = reset_sources(tools, last_sources)
    /\ ret' = [op |-> "reset_sources", out |-> Return("None")]
    /\ UNCHANGED <<tools, last_executed, registrations>>
    /\ UNCHANGED <<genVars, qVars>>

\* execute_tool() while the caller holds its list
HeldExecute(tool_name, kwargs, outcome) ==
    /\ \E r \in {execute_tool(tools, tool_name, kwargs, outcome)} :
         /\ \E o \in {IF r.invoked # None /\ r.sources # None
                       THEN SetLastSources([bound |-> bound, lists |-> lists], held,
                                           Val(r.invoked), Val(r.sources))
                       ELSE [bound |-> bound, lists |-> lists]} :
              /\ bound' = o.bound
              /\ lists' = o.lists
         /\ last_sources' = SourcesAfter(last_sources, r)
         /\ ret' = [op |-> "execute_tool", tool_name |-> tool_name, kwargs |-> kwargs,
                    backend |-> outcome, invoked |-> r.invoked, out |-> r.out,
                    lookups |-> r.lookups]
         /\ last_executed' = IF r.invoked # None
                             THEN [tool |-> r.invoked, sources |-> r.sources]
                             ELSE last_executed
    /\ held' = Since("execute_tool")
    /\ UNCHANGED <<tools, registrations>>
    /\ UNCHANGED <<genVars, qVars>>

NextHeld ==
    \/ HeldGet
    \/ HeldReset
    \/ \E q \in QueryIds : \E call \in QueryCalls(q) :
         HeldExecute(call.tool_name, call.kwargs, call.outcome)

\* the registry of the application and a caller that keeps what it was given
SpecHeld == InitServing /\ [][NextHeld]_vars

-----------------------------------------------------------------------------
(* Properties of the registry                                              *)

\* the tool registered under a name
ToolUnder(tool_name) == tools[Lookup(tools, tool_name)].tool

\* C7: execute_tool called with a name that is not registered returns a string
\* containing "not found", raises no exception, runs no tool's execute() and
\* leaves the last_sources of every tool as it was.
C7_UnknownToolIsNotFound ==
    [][(ret'.op = "execute_tool" /\ ret'.tool_name \notin Keys(tools))
         => /\ ~ret'.out.raised
            /\ Contains(ret'.out.value, "not found")
            /\ ret'.invoked = None
            /\ last_executed' = last_executed
            /\ last_sources' = last_sources]_vars

\* C7 happens: a name that is not registered was executed while tools are
\* registered and one of them retains sources.
C7_Witness ==
    /\ ret.op = "execute_tool"
    /\ ret.tool_name \notin Keys(tools)
    /\ ~ret.out.raised
    /\ ret.out.value = "Tool 'nonexistent_tool' not found"
    /\ tools # <<>>
    /\ \E t \in ToolInstances : last_sources[t] # <<>>

\* C8: the get_last_sources() that follows a reset_sources() returns the empty
\* list, whatever operations came before the reset.  (A step from one operation
\* to the other changes ret.op, so the steps constrained are those of vars.)
C8_ResetThenGetIsEmpty ==
    [][(ret.op = "reset_sources" /\ ret'.op = "get_last_sources")
         => ret'.out = Return(<<>>)]_(ret.op)

\* C8 happens: reset_sources() has run on a registry of two tools after an
\* execution that produced sources.
C8_Witness ==
    /\ ret.op = "reset_sources"
    /\ Len(tools) = 2
    /\ last_executed.sources # None
    /\ Val(last_executed.sources) # <<>>

\* C9 (as claimed): when the most recently executed tool is registered and
\* retains the sources its execution produced, get_last_sources() returns
\* these sources.
C9_ReturnsMostRecentlyExecuted ==
    (/\ ret.op = "get_last_sources"
     /\ last_executed.tool # None
     /\ last_executed.sources # None
     /\ Val(last_executed.sources) # <<>>
     /\ \E i \in 1..Len(tools) : tools[i].tool = Val(last_executed.tool)
     /\ last_sources[Val(last_executed.tool)] = Val(last_executed.sources))
    => ret.out.value = Val(last_executed.sources)

\* the first element of the sequence of tools s that retains sources
FirstWithSources(s) ==
    s[CHOOSE i \in 1..Len(s) :
        /\ last_sources[s[i]] # <<>>
        /\ \A j \in 1..(i - 1) : last_sources[s[j]] = <<>>]

\* C10 (as claimed): get_last_sources() returns the list of the first tool, in
\* the order in which the registered tools were registered, that retains
\* sources, and the empty list when none does.
C10_FirstInRegistrationOrder ==
    ret.op = "get_last_sources"
    => ret.out.value =
         IF \E t \in ToolInstances :
              /\ \E i \in 1..Len(registrations.entered) : registrations.entered[i] = t
              /\ last_sources[t] # <<>>
         THEN last_sources[FirstWithSources(registrations.entered)]
         ELSE <<>>

\* the registered tools in the order in which their names were first registered
ToolsByName == [i \in 1..Len(registrations.names) |-> ToolUnder(registrations.names[i])]

\* C10 (amended): get_last_sources() returns the list of the first tool that
\* retains sources, in the order in which the tools' names were first
\* registered (a tool registered under a name already in use takes the place of
\* the tool it replaces), and the empty list when no registered tool retains
\* sources; the lists of the tools after that one are not part of the result.
C10_FirstInNameOrder ==
    ret.op = "get_last_sources"
    => /\ ~ret.out.raised
       /\ Keys(tools) = {registrations.names[i] : i \in 1..Len(registrations.names)}
       /\ ret.out.value =
            IF \E i \in 1..Len(tools) : last_sources[tools[i].tool] # <<>>
            THEN last_sources[FirstWithSources(ToolsByName)]
            ELSE <<>>

\* C10 happens: two registered tools retain different sources and
\* get_last_sources() returned the list of the one whose name was registered first.
C10_Witness ==
    /\ ret.op = "get_last_sources"
    /\ Len(tools) = 2
    /\ last_sources[tools[1].tool] # <<>>
    /\ last_sources[tools[2].tool] # <<>>
    /\ last_sources[tools[1].tool] # last_sources[tools[2].tool]
    /\ ret.out.value = last_sources[ToolUnder(registrations.names[1])]

-----------------------------------------------------------------------------
(* Properties of generate_response                                         *)

\* the requests of the invocation that got a response
Answered(i) == ~calls[i].outcome.raised

\* t is the text of the first text block of response, or "" when it has none
IsFirstText(response, t) ==
    \/ \E i \in 1..Len(response.content) :
         /\ response.content[i].type = "text"
         /\ response.content[i].text = t
         /\ \A j \in 1..(i - 1) : response.content[j].type # "text"
    \/ /\ t = ""
       /\ \A i \in 1..Len(response.content) : response.content[i].type # "text"

\* C1 (as claimed): one generate_response invocation sends at most
\* MAX_TOOL_ROUNDS + 1 requests to the model service, the first one counted.
C1_AtMostRoundsPlusOneCalls == Len(calls) <= MAX_TOOL_ROUNDS + 1

\* C1 (amended): one invocation sends at most MAX_TOOL_ROUNDS + 2 requests: the
\* first one, then at most MAX_TOOL_ROUNDS + 1 from the tool loop, of which at
\* most MAX_TOOL_ROUNDS follow a round and at most one is the final request.
C1_AtMostRoundsPlusTwoCalls ==
    /\ Len(calls) <= MAX_TOOL_ROUNDS + 2
    /\ Cardinality({i \in 1..Len(calls) : calls[i].kind = "initial"}) <= 1
    /\ Cardinality({i \in 1..Len(calls) : calls[i].kind = "next"}) <= MAX_TOOL_ROUNDS
    /\ Cardinality({i \in 1..Len(calls) : calls[i].kind = "final"}) <= 1
    /\ \A i \in 1..Len(calls) : calls[i].kind = "initial" <=> i = 1

\* C1 happens: every response asked for a tool and the invocation is over.
C1_Witness ==
    /\ pc = "done"
    /\ Len(calls) = MAX_TOOL_ROUNDS + 2
    /\ \A i \in 1..Len(calls) :
         /\ Answered(i)
         /\ calls[i].outcome.value.stop_reason = "tool_use"
         /\ \E j \in 1..Len(calls[i].outcome.value.content) :
              calls[i].outcome.value.content[j].type = "tool_use"

\* C2: once rounds_completed has reached MAX_TOOL_ROUNDS with the last response
\* asking for tools, the next step is one more request, sent without tools and
\* without tool_choice; the text of its response is the answer, and no tool is
\* executed and no request sent after it.
C2_FinalCallWithoutTools ==
    [][/\ (pc = "loop" /\ rounds_completed >= MAX_TOOL_ROUNDS)
          => /\ Len(calls') = Len(calls) + 1
             /\ SubSeq(calls', 1, Len(calls)) = calls
             /\ calls'[Len(calls')].params.tools = None
             /\ calls'[Len(calls')].params.tool_choice = None
             /\ calls'[Len(calls')].params.messages = messages
             /\ pc' = "done"
             /\ execs' = execs
             /\ ~calls'[Len(calls')].outcome.raised
                  => /\ ~answer'.raised
                     /\ IsFirstText(calls'[Len(calls')].outcome.value, answer'.value)
       /\ pc = "done" => UNCHANGED vars]_vars

\* C2 happens: the final request was answered with stop reason tool_use and a
\* tool-use block, and the invocation returned that response's text.
C2_Witness ==
    /\ pc = "done"
    /\ calls[Len(calls)].kind = "final"
    /\ Answered(Len(calls))
    /\ calls[Len(calls)].outcome.value.stop_reason = "tool_use"
    /\ Len(calls[Len(calls)].outcome.value.content) = 2
    /\ calls[Len(calls)].outcome.value.content[1].type = "tool_use"
    /\ calls[Len(calls)].outcome.value.content[2].type = "text"
    /\ answer = Return(calls[Len(calls)].outcome.value.content[2].text)
    /\ Len(execs) = 2 * MAX_TOOL_ROUNDS

\* the invocation is over and its answer is a string, or the exception of the
\* model service
Finished ==
    /\ pc = "done"
    /\ answer.raised => (calls[Len(calls)].outcome.raised /\ answer = calls[Len(calls)].outcome)

\* C3: an invocation that has entered the tool loop finishes: it returns a
\* string, unless the model service failed, whatever the stop reasons and
\* the blocks of the responses and whether the tools return or raise.
C3_ToolLoopTerminates == (pc = "loop") ~> Finished

\* C3 happens: the loop was entered, a tool raised, and the invocation returned
\* the empty string.
C3_Witness ==
    /\ pc = "done"
    /\ Len(calls) > 1
    /\ \E k \in 1..Len(execs) : execs[k].out.raised
    /\ answer = Return("")

\* C4 (as claimed): whenever generate_response is over and the model service did
\* not fail, it has returned the text of the first text block of the last
\* response, "" when there is none; it raises nothing.
C4_AnswerIsFirstTextOnEveryPath ==
    (pc = "done" /\ Answered(Len(calls)))
    => /\ ~answer.raised
       /\ IsFirstText(calls[Len(calls)].outcome.value, answer.value)

\* the tool-use blocks of a content list, in order
ToolUses(content) == SelectSeq(content, LAMBDA b : b.type = "tool_use")

\* the executions of round r, in order
ExecsOf(r) == SelectSeq(execs, LAMBDA e : e.round = r)

\* C5: when a round is over, every tool-use block of its response was executed
\* once, in order, whether or not another block's execution raised; the last
\* message holds one result per tool-use block, with the block's identifier,
\* which is "Tool execution failed: <message>" for an execution that raised and
\* the returned text for the others; a tool's exception never ends the query.
C5_OneResultPerToolCall ==
    /\ pc = "next_call"
       => LET blocks == ToolUses(current_response.content)
              done == ExecsOf(rounds_completed - 1)
              last == messages[Len(messages)]
          IN  /\ Len(done) = Len(blocks)
              /\ \A k \in 1..Len(blocks) : done[k].id = blocks[k].id
              /\ blocks # <<>>
                   => /\ last.role = "user"
                      /\ last.content.kind = "list"
                      /\ Len(last.content.blocks) = Len(blocks)
                      /\ \A k \in 1..Len(blocks) :
                           /\ last.content.blocks[k].type = "tool_result"
                           /\ last.content.blocks[k].tool_use_id = blocks[k].id
                           /\ last.content.blocks[k].content =
                                IF done[k].out.raised
                                THEN "Tool execution failed: " \o done[k].out.msg
                                ELSE done[k].out.value
    /\ (pc = "done" /\ answer.raised) => \A k \in 1..Len(execs) : answer # execs[k].out

\* C5 happens: of the two tool calls of a round the first raised and the second
\* returned, and both results are in the message.
C5_Witness ==
    /\ pc = "next_call"
    /\ Len(ToolUses(current_response.content)) = 2
    /\ Len(tool_results) = 2
    /\ StartsWith(tool_results[1].content, "Tool execution failed:")
    /\ ~StartsWith(tool_results[2].content, "Tool execution failed:")
    /\ messages[Len(messages)] = Message("user", ListContent(tool_results))

\* C6: a request the model service fails is the last thing the invocation does:
\* the exception is what generate_response raises, no answer is returned, and
\* no request and no tool execution comes after the failed request.
C6_ServiceFailurePropagates ==
    \A i \in 1..Len(calls) :
        calls[i].outcome.raised
        => /\ i = Len(calls)
           /\ pc = "done"
           /\ answer = calls[i].outcome
           /\ answer.raised
           /\ \A k \in 1..Len(execs) : execs[k].calls < i

\* C6 happens: the final request failed after both rounds ran their tools.
C6_Witness ==
    /\ pc = "done"
    /\ Len(calls) = MAX_TOOL_ROUNDS + 2
    /\ calls[Len(calls)].outcome.raised
    /\ answer = Raise("APIConnectionError", "Connection error.")
    /\ execs # <<>>

-----------------------------------------------------------------------------
(* Properties of the tools                                                 *)

\* the last registry operation ran the execute() of a tool of the set T, and
\* execute() returned
Executed(T) ==
    /\ ret.op = "execute_tool"
    /\ ret.invoked # None
    /\ Val(ret.invoked) \in T
    /\ ~ret.out.raised

\* C11 (as claimed): after an execution of a tool has returned, the tool's
\* last_sources holds the sources of that execution and nothing of an earlier
\* one: the list the execution built, and the empty list when it built none
\* (nothing found, a backend error, a course that does not resolve).
C11_ExecutionOverwritesSources ==
    Executed(ToolInstances)
    => last_sources[Val(ret.invoked)] =
         IF last_executed.sources = None THEN <<>> ELSE Val(last_executed.sources)

\* the last operation was a search that found chunks: store.search answered
\* documents and no error, and execute returned
FoundChunks ==
    /\ Executed(SearchTools)
    /\ ~TruthyStr(ret.backend.value.error)
    /\ ~is_empty(ret.backend.value)

\* the (course title, lesson number) pair of the i-th chunk of a result and the
\* source title it is shown under
ChunkPair(results, i) ==
    <<results.metadata[i].course_title, results.metadata[i].lesson_number>>

ChunkTitle(results, i) ==
    Val(results.metadata[i].course_title)
    \o (IF results.metadata[i].lesson_number # None
        THEN " - Lesson " \o ToString(Val(results.metadata[i].lesson_number))
        ELSE "")

\* the positions, in order, of the chunks that are the first of their kind,
\* Same(i, j) telling whether chunks i and j are of one kind
FirstOfKind(n, Same(_, _)) ==
    SelectSeq([i \in 1..n |-> i], LAMBDA i : \A j \in 1..(i - 1) : ~Same(j, i))

\* the source of the chunk at position i, and the lookup made for it
SourceOf(results, i) ==
    [title |-> ChunkTitle(results, i),
     url |-> IF results.metadata[i].lesson_number # None
             THEN get_lesson_link(Val(results.metadata[i].course_title),
                                  Val(results.metadata[i].lesson_number))
             ELSE None]

LookupOf(results, i) ==
    <<Val(results.metadata[i].course_title), Val(results.metadata[i].lesson_number)>>

\* C12 (as claimed): after a search that found chunks, last_sources has one
\* entry per distinct (course title, lesson number) pair of the chunks, in the
\* order in which the pairs first appear, and get_lesson_link was called once
\* for every distinct pair that has a lesson number and for nothing else.
C12_OneSourcePerDistinctPair ==
    FoundChunks
    => LET results == ret.backend.value
           SamePair(i, j) == ChunkPair(results, i) = ChunkPair(results, j)
           first == FirstOfKind(Len(results.metadata), SamePair)
           looked == SelectSeq(first, LAMBDA i : results.metadata[i].lesson_number # None)
       IN  /\ last_sources[Val(ret.invoked)] =
                [k \in 1..Len(first) |-> SourceOf(results, first[k])]
           /\ ret.lookups = [k \in 1..Len(looked) |-> LookupOf(results, looked[k])]

\* What _format_results does instead (seen_titles holds titles, not pairs): after
\* a search that found chunks, last_sources has one entry
\* per distinct source title of the chunks (the course title, followed by
\* " - Lesson <n>" when the chunk has a lesson number), in the order in which the
\* titles first appear, with the link of the first chunk of that title; and
\* get_lesson_link was called once for the first chunk of every title when that
\* chunk has a lesson number, and for nothing else.
OneSourcePerDistinctTitle ==
    FoundChunks
    => LET results == ret.backend.value
           SameTitle(i, j) == ChunkTitle(results, i) = ChunkTitle(results, j)
           first == FirstOfKind(Len(results.metadata), SameTitle)
           looked == SelectSeq(first, LAMBDA i : results.metadata[i].lesson_number # None)
       IN  /\ last_sources[Val(ret.invoked)] =
                [k \in 1..Len(first) |-> SourceOf(results, first[k])]
           /\ ret.lookups = [k \in 1..Len(looked) |-> LookupOf(results, looked[k])]
           /\ \A k, l \in 1..Len(ret.lookups) : ret.lookups[k] = ret.lookups[l] => k = l

\* two chunks of the same lesson were found: one source is retained, looked up once
TwoChunksOfOneLesson ==
    /\ FoundChunks
    /\ Len(ret.backend.value.metadata) = 2
    /\ ret.backend.value.metadata[1] = ret.backend.value.metadata[2]
    /\ ret.backend.value.metadata[1].lesson_number # None
    /\ Len(last_sources[Val(ret.invoked)]) = 1
    /\ Len(ret.lookups) = 1

\* a search that found nothing: store.search answered no documents and no error
FoundNothing ==
    /\ Executed(SearchTools)
    /\ ~TruthyStr(ret.backend.value.error)
    /\ is_empty(ret.backend.value)

\* C13 (as claimed): a search that found nothing returns "No relevant content
\* found<filters>." where <filters> has " in course '<course_name>'" whenever a
\* course_name was passed and " in lesson <n>" whenever a lesson_number was
\* passed, whatever the number, and nothing for a filter that was not passed.
C13_EmptyMessageEchoesEveryFilter ==
    FoundNothing
    => ret.out.value =
         "No relevant content found"
         \o (IF ret.kwargs.course_name # None
             THEN " in course '" \o Val(ret.kwargs.course_name) \o "'" ELSE "")
         \o (IF ret.kwargs.lesson_number # None
             THEN " in lesson " \o ToString(Val(ret.kwargs.lesson_number)) ELSE "")
         \o "."

\* the last operation ran the search tool and store.search answered a result
\* whose error field is set
BackendReportedError ==
    /\ ret.op = "execute_tool"
    /\ ret.invoked # None
    /\ Val(ret.invoked) \in SearchTools
    /\ ~ret.backend.raised
    /\ ret.backend.value.error # None

\* C14: when the result of store.search has its error field set, execute
\* returns that error string and nothing else, with or without documents in the
\* result, and raises nothing.
C14_BackendErrorReturnedVerbatim ==
    BackendReportedError
    => /\ ~ret.out.raised
       /\ ret.out.value = Val(ret.backend.value.error)
       /\ ret.lookups = <<>>

\* C14 happens: the backend reported an error in a result that carries a
\* document, and execute returned the error.
C14_Witness ==
    /\ BackendReportedError
    /\ ret.backend.value.documents # <<>>
    /\ ret.out = Return("Search error: boom")

\* the lines of a text
RECURSIVE SplitLines(_)
SplitLines(s) ==
    IF \E i \in 1..Len(s) : SubSeq(s, i, i) = "\n"
    THEN LET i == CHOOSE k \in 1..Len(s) :
                    /\ SubSeq(s, k, k) = "\n"
                    /\ \A j \in 1..(k - 1) : SubSeq(s, j, j) # "\n"
         IN  <<SubSeq(s, 1, i - 1)>> \o SplitLines(SubSeq(s, i + 1, Len(s)))
    ELSE <<s>>

\* the last operation ran an outline tool for a course that resolved and whose
\* metadata was found, with a stored lesson list that is a list of lesson records
\* (or none stored)
OutlineFound ==
    /\ ret.op = "execute_tool"
    /\ ret.invoked # None
    /\ Val(ret.invoked) \in OutlineTools
    /\ ret.backend.resolved # None
    /\ ret.backend.catalog = "ok"
    /\ LET l == ret.backend.metadata.lessons_json
       IN  \/ l.stored = "absent"
           \/ /\ l.stored = "text"
              /\ ~json_loads(l.text).raised
              /\ json_loads(l.text).value.kind = "list"
              /\ \A i \in 1..Len(json_loads(l.text).value.items) :
                   json_loads(l.text).value.items[i].kind = "lesson"

\* the stored lessons of the course of the last outline
StoredLessonList ==
    IF ret.backend.metadata.lessons_json.stored = "absent" THEN <<>>
    ELSE json_loads(ret.backend.metadata.lessons_json.text).value.items

\* C15: the outline of a course that resolved and whose metadata was found has,
\* line by line, the bold course title, a "Course Link:" line exactly when a link
\* is stored, an empty line, then either the no-lessons notice (no stored lesson)
\* or the header "**Lessons (N total):**", N the number of stored lessons,
\* followed by one "<number>. <title>" line per lesson in stored order; and the
\* tool's last_sources is the one entry {title: course title, url: course link}.
C15_OutlineOfFoundCourse ==
    OutlineFound
    => /\ ~ret.out.raised
       /\ LET m == ret.backend.metadata
              title == IF m.title # None THEN Val(m.title) ELSE Val(ret.backend.resolved)
              linked == m.course_link # None /\ Val(m.course_link) # ""
              lines == SplitLines(ret.out.value)
              k == IF linked THEN 3 ELSE 2
              lessons == StoredLessonList
          IN  /\ lines[1] = "**" \o title \o "**"
              /\ linked => lines[2] = "Course Link: " \o Val(m.course_link)
              /\ \A i \in 1..Len(lines) : StartsWith(lines[i], "Course Link:") => (linked /\ i = 2)
              /\ lines[k] = ""
              /\ IF lessons = <<>>
                 THEN /\ Len(lines) = k + 1
                      /\ lines[k + 1] = "This course has no lessons listed."
                 ELSE /\ Len(lines) = k + 1 + Len(lessons)
                      /\ lines[k + 1] = "**Lessons (" \o ToString(Len(lessons)) \o " total):**"
                      /\ \A i \in 1..Len(lessons) :
                           lines[k + 1 + i] =
                             "  " \o (IF lessons[i].lesson_number # None
                                      THEN ToString(Val(lessons[i].lesson_number)) ELSE "?")
                                  \o ". "
                                  \o (IF lessons[i].lesson_title # None
                                      THEN Val(lessons[i].lesson_title) ELSE "Untitled")
              /\ last_sources[Val(ret.invoked)] = <<[title |-> title, url |-> m.course_link]>>

\* C15 happens: the outline of "Intro to X", stored with a link and the lesson
\* "1. Basics", was returned and is the tool's source.
C15_Witness ==
    /\ OutlineFound
    /\ ret.out = Return("**Intro to X**\nCourse Link: http://x\n\n**Lessons (1 total):**\n  1. Basics")
    /\ last_sources[Val(ret.invoked)] = <<[title |-> "Intro to X", url |-> Some("http://x")]>>

\* the last operation ran an outline tool for a course that resolved and whose
\* metadata was found, with a stored lessons value that is malformed: no JSON,
\* JSON that is no list of lesson records, or null
OutlineOfMalformedLessons ==
    /\ ret.op = "execute_tool"
    /\ ret.invoked # None
    /\ Val(ret.invoked) \in OutlineTools
    /\ ret.backend.resolved # None
    /\ ret.backend.catalog = "ok"
    /\ ret.backend.metadata.lessons_json.stored # "absent"
    /\ ~OutlineFound

\* C16 (as claimed): for every malformed stored lessons value execute raises
\* nothing and returns the outline with the no-lessons notice as its last line.
C16_MalformedLessonsDegrade ==
    OutlineOfMalformedLessons
    => /\ ~ret.out.raised
       /\ LET lines == SplitLines(ret.out.value)
          IN  lines[Len(lines)] = "This course has no lessons listed."

-----------------------------------------------------------------------------
(* Properties of registration                                              *)

\* the definition of a tool has no name, or an empty one
HasNoName(tool) ==
    \/ "name" \notin DOMAIN get_tool_definition(tool)
    \/ get_tool_definition(tool).name = ""

\* C17: register_tool raises ValueError for a tool whose definition has no name
\* or an empty name, and leaves the registry and the tools as they were; in
\* every state every registered name is non-empty and no two entries of the
\* registry, nor two definitions returned by get_tool_definitions(), have the
\* same name: registering a name again replaces the tool under that name.
C17_NamesNonEmptyAndUnique ==
    /\ [](/\ \A i \in 1..Len(tools) : tools[i].name # ""
          /\ \A i, j \in 1..Len(tools) : tools[i].name = tools[j].name => i = j
          /\ ret.op = "get_tool_definitions"
               => \A i, j \in 1..Len(ret.out.value) :
                    /\ "name" \in DOMAIN ret.out.value[i]
                    /\ ret.out.value[i].name # ""
                    /\ ret.out.value[i].name = ret.out.value[j].name => i = j)
    /\ [][ret'.op = "register_tool"
            => IF HasNoName(ret'.tool)
               THEN /\ ret'.out.raised
                    /\ ret'.out.exc = "ValueError"
                    /\ tools' = tools
                    /\ last_sources' = last_sources
               ELSE /\ ~ret'.out.raised
                    /\ Len(tools') = Cardinality(Keys(tools) \cup {get_tool_definition(ret'.tool).name})
                    /\ tools'[Lookup(tools', get_tool_definition(ret'.tool).name)].tool
                         = ret'.tool]_vars

\* C17 happens: with two tools registered under two names, the tool whose
\* definition has the name "" was refused.
C17_Witness ==
    /\ ret.op = "register_tool"
    /\ ret.tool \in EmptyNameTools
    /\ ret.out = Raise("ValueError", "Tool must have a 'name' in its definition")
    /\ Len(tools) = 2
    /\ Keys(tools) = {SearchToolName, OutlineToolName}

\* C18 (as claimed): get_tool_definitions() returns the definitions of the
\* registered tools, one each, in the order in which these tools were
\* registered.
C18_DefinitionsInRegistrationOrder ==
    ret.op = "get_tool_definitions"
    => ret.out.value =
         [i \in 1..Len(registrations.entered) |->
            get_tool_definition(registrations.entered[i])]

\* C18 (amended): get_tool_definitions() returns one definition per registered
\* name, that of the tool now registered under the name, in the order in which
\* the names were first registered: a tool registered under a name already in
\* use takes the place of the tool it replaces.
C18_DefinitionsInNameOrder ==
    ret.op = "get_tool_definitions"
    => /\ ~ret.out.raised
       /\ Len(ret.out.value) = Len(registrations.names)
       /\ Len(ret.out.value) = Cardinality({tools[i].tool : i \in 1..Len(tools)})
       /\ \A i \in 1..Len(ret.out.value) :
            /\ ret.out.value[i].name = registrations.names[i]
            /\ ret.out.value[i] = get_tool_definition(ToolUnder(registrations.names[i]))

\* C18 happens: the definitions of two registered tools were returned, the
\* outline tool's first although the tool now registered under that name was
\* registered after the search tool.
C18_Witness ==
    /\ ret.op = "get_tool_definitions"
    /\ Len(ret.out.value) = 2
    /\ ret.out.value[1].name = OutlineToolName
    /\ ret.out.value[2].name = SearchToolName
    /\ registrations.entered = <<"search1", "outline2">>

-----------------------------------------------------------------------------
(* Properties of a round of the tool loop                                  *)

\* the identifiers of the tool-use blocks of a content list, in order
ToolUseIds(content) == [k \in 1..Len(ToolUses(content)) |-> ToolUses(content)[k].id]

\* the rounds completed so far whose response had a tool-use block; the response
\* of the r-th round is the answer to the r-th request
RoundsWithToolUse ==
    {r \in 1..rounds_completed : ToolUses(calls[r].outcome.value.content) # <<>>}

\* while a round runs: the assistant's message is the last message, and the
\* tool-use blocks met so far, and no others, were executed once each, in order,
\* after that message was appended and before any further request
RoundInProgress ==
    pc = "blocks"
    => LET content == current_response.content
           met == ToolUseIds(SubSeq(content, 1, block_idx - 1))
           done == ExecsOf(rounds_completed)
       IN  /\ messages[Len(messages)] = Message("assistant", ListContent(content))
           /\ [k \in 1..Len(done) |-> done[k].id] = met
           /\ [k \in 1..Len(tool_results) |-> tool_results[k].tool_use_id] = met
           /\ \A k \in 1..Len(done) : done[k].calls = rounds_completed + 1

\* the messages a finished round has appended: the assistant's message, then
\* the user message of the results, of which there are `users`
RoundAppended(users) ==
    LET content == current_response.content
        n == Len(messages)
    IN  /\ n >= 1 + users
        /\ messages[n - users] = Message("assistant", ListContent(content))
        /\ [k \in 1..Len(ExecsOf(rounds_completed - 1)) |->
              ExecsOf(rounds_completed - 1)[k].id] = ToolUseIds(content)
        /\ users = 1
             => /\ messages[n].role = "user"
                /\ messages[n].content.kind = "list"
                /\ [k \in 1..Len(messages[n].content.blocks) |->
                      messages[n].content.blocks[k].tool_use_id] = ToolUseIds(content)
                /\ \A k \in 1..Len(messages[n].content.blocks) :
                     messages[n].content.blocks[k].type = "tool_result"

Advertised(params) == IF params.tools = None THEN <<>> ELSE Val(params.tools)

\* C20: every request that follows a round carries the messages of the request
\* before it followed by the round's messages (the assistant's message and the
\* results), the system prompt of the first request, the tool definitions the
\* first request advertised, and the automatic tool choice.
C20_FollowUpKeepsSystemAndTools ==
    \A i \in 1..Len(calls) :
        calls[i].kind = "next"
        => LET p == calls[i].params
               before == calls[i - 1].params.messages
               content == calls[i - 1].outcome.value.content
               users == IF ToolUses(content) # <<>> THEN 1 ELSE 0
           IN  /\ i > 1
               /\ p.system = calls[1].params.system
               /\ Advertised(p) = Advertised(calls[1].params)
               /\ p.tool_choice = Some("auto")
               /\ Len(p.messages) = Len(before) + 1 + users
               /\ SubSeq(p.messages, 1, Len(before)) = before
               /\ p.messages[Len(before) + 1] = Message("assistant", ListContent(content))
               /\ users = 1
                    => /\ p.messages[Len(before) + 2].role = "user"
                       /\ [k \in 1..Len(p.messages[Len(before) + 2].content.blocks) |->
                             p.messages[Len(before) + 2].content.blocks[k].tool_use_id]
                          = ToolUseIds(content)

\* C20 happens: the request after the second round was sent with the history in
\* the system prompt, the two tool definitions and the five messages.
C20_Witness ==
    /\ Len(calls) >= 3
    /\ calls[3].kind = "next"
    /\ calls[3].params.system = calls[1].params.system
    /\ calls[3].params.system # SYSTEM_PROMPT
    /\ calls[3].params.tools = Definitions
    /\ Len(Val(calls[3].params.tools)) = 2
    /\ Len(calls[3].params.messages) = 5

-----------------------------------------------------------------------------
(* Properties of the control flow of generate_response                     *)

\* the i-th request was answered with a stop reason other than tool_use
StoppedAt(i) == Answered(i) /\ calls[i].outcome.value.stop_reason # "tool_use"

\* every tool execution follows a response with stop reason tool_use given to an
\* invocation that has a registry
ExecutionsFollowToolUse ==
    \A k \in 1..Len(execs) :
        /\ execs[k].calls \in 1..Len(calls)
        /\ Answered(execs[k].calls)
        /\ calls[execs[k].calls].outcome.value.stop_reason = "tool_use"
        /\ tool_manager

\* C21 (as claimed): a response, first or follow-up, with a stop reason other
\* than tool_use ends the invocation: generate_response returns that response's
\* text, no request and no tool execution comes after it; and a tool is
\* executed only after a response with stop reason tool_use and with a registry.
C21_NonToolStopReturnsText ==
    /\ \A i \in 1..Len(calls) :
         StoppedAt(i)
         => /\ i = Len(calls)
            /\ pc = "done"
            /\ \A k \in 1..Len(execs) : execs[k].calls < i
            /\ ~answer.raised
            /\ IsFirstText(calls[i].outcome.value, answer.value)
    /\ ExecutionsFollowToolUse

\* What the code does: a response with a stop reason other than tool_use ends
\* the invocation with no further request and no further execution; a follow-up
\* response's text is returned, and the first response's first block decides
\* whether generate_response returns (its text) or raises.
NonToolStopEndsInvocation ==
    /\ \A i \in 1..Len(calls) :
         StoppedAt(i)
         => /\ i = Len(calls)
            /\ pc = "done"
            /\ \A k \in 1..Len(execs) : execs[k].calls < i
            /\ IF i = 1
               THEN answer = FirstBlockText(calls[i].outcome.value)
               ELSE /\ ~answer.raised
                    /\ IsFirstText(calls[i].outcome.value, answer.value)
    /\ ExecutionsFollowToolUse

\* C22: rounds_completed is 0 when the loop is entered, goes up by exactly one
\* at the end of a round and changes at no other step, and never exceeds
\* MAX_TOOL_ROUNDS; a round starts only while rounds_completed < MAX_TOOL_ROUNDS,
\* so the tools of at most MAX_TOOL_ROUNDS rounds are executed.
C22_RoundCounterBounded ==
    /\ rounds_completed = 0
    /\ [](/\ rounds_completed \in 0..MAX_TOOL_ROUNDS
          /\ \A k \in 1..Len(execs) : execs[k].round \in 0..(MAX_TOOL_ROUNDS - 1)
          /\ Cardinality({execs[k].round : k \in 1..Len(execs)}) <= MAX_TOOL_ROUNDS
          /\ pc = "blocks" => rounds_completed < MAX_TOOL_ROUNDS)
    /\ [][/\ rounds_completed' = rounds_completed + 1
          /\ pc = "blocks"
          /\ pc' = "next_call"]_rounds_completed
    /\ [][(pc = "blocks" /\ pc' = "next_call")
             => rounds_completed' = rounds_completed + 1]_pc
    /\ [][pc' = "blocks" => (pc = "loop" /\ rounds_completed < MAX_TOOL_ROUNDS)]_pc
    /\ [][(pc = "initial_call" /\ pc' = "loop") => rounds_completed' = 0]_pc

\* C22 happens: the invocation ended after MAX_TOOL_ROUNDS rounds, each of which
\* executed a tool.
C22_Witness ==
    /\ pc = "done"
    /\ rounds_completed = MAX_TOOL_ROUNDS
    /\ {execs[k].round : k \in 1..Len(execs)} = 0..(MAX_TOOL_ROUNDS - 1)
    /\ calls[Len(calls)].kind = "final"

-----------------------------------------------------------------------------
(* Properties of queries served concurrently                               *)

\* C23: the registry does not isolate the sources of interleaved queries. A
\* query that ran with no other query between its start and its reset has read
\* what its own executions produced; whenever a query has read something else,
\* the list another query's execution produced or an empty list after another
\* query's reset, the queries were interleaved, and nothing in the registry
\* prevents it (C23_Witness is reached).
C23_NoIsolationBetweenInterleavedQueries ==
    \A q \in QueryIds :
        queries[q].read # None
        => \/ /\ Val(queries[q].read).sources = get_last_sources(tools, queries[q].priv)
              /\ Val(queries[q].read).from \in {0, q}
           \/ queries[q].overlapped

\* C23 happens: the sources query 1 has read after its generation are those the
\* tool execution of query 2 produced, not those its own execution produced.
C23_Witness ==
    /\ queries[1].read # None
    /\ Val(queries[1].read).from = 2
    /\ Val(queries[1].read).sources # <<>>
    /\ queries[1].executed > 0
    /\ get_last_sources(tools, queries[1].priv) # <<>>
    /\ Val(queries[1].read).sources # get_last_sources(tools, queries[1].priv)

\* the other interleaving: query 1 produced sources, and read the empty list
\* because query 2 had reset the registry in between
ClearedByOtherQuery ==
    /\ queries[1].read # None
    /\ Val(queries[1].read).sources = <<>>
    /\ get_last_sources(tools, queries[1].priv) # <<>>
    /\ queries[2].pc = "done"

-----------------------------------------------------------------------------
(* Properties of the message sequence                                      *)

\* C24 (as claimed): the messages of every request start with the user's query,
\* alternate between the roles user and assistant, and end with a user message;
\* so every assistant message is followed by a user message of tool results
\* before the next request, whatever blocks the response has.
C24_MessagesAlternate ==
    \A i \in 1..Len(calls) :
        LET m == calls[i].params.messages
        IN  /\ m # <<>>
            /\ m[1] = Message("user", StrContent("What is MCP?"))
            /\ \A k \in 1..Len(m) :
                 m[k].role = IF k % 2 = 1 THEN "user" ELSE "assistant"
            /\ m[Len(m)].role = "user"

\* What the code does: the messages of every request start with the query; an
\* assistant message is followed by the user message of its results exactly
\* when its content has a tool-use block, and the sequence ends with a user
\* message unless the last response had none.
MessagesAlternateIfToolUse ==
    \A i \in 1..Len(calls) :
        LET m == calls[i].params.messages
        IN  /\ m # <<>>
            /\ m[1] = Message("user", StrContent("What is MCP?"))
            /\ \A k \in 2..Len(m) :
                 IF m[k - 1].role = "assistant"
                 THEN IF ToolUses(m[k - 1].content.blocks) # <<>>
                      THEN m[k].role = "user" /\ m[k].content.kind = "list"
                      ELSE m[k].role = "assistant"
                 ELSE m[k].role = "assistant"
            /\ m[Len(m)].role = "assistant"
                 => ToolUses(m[Len(m)].content.blocks) = <<>>

-----------------------------------------------------------------------------
(* Properties of a list obtained from get_last_sources()                   *)

\* C25: a list obtained from get_last_sources() keeps the contents it had when
\* it was returned, through every later reset_sources() and tool execution:
\* both bind last_sources to a new list and leave the returned one alone, so
\* after a reset no registered tool's attribute names the returned list. The
\* list objects agree with the tools' last_sources throughout.
C25_ReturnedListKeepsContents ==
    /\ \A t \in ToolInstances : lists[bound[t]] = last_sources[t]
    /\ held # None
       => /\ lists[Val(held).id] = Val(held).contents
          /\ "reset_sources" \in Val(held).since
             => \A i \in 1..Len(tools) : bound[tools[i].tool] # Val(held).id

\* the caller obtained a list with a source in it; since then the sources were
\* reset and a tool was executed, and the tools' lists are now others
C25_Witness ==
    /\ held # None
    /\ Val(held).contents # <<>>
    /\ Val(held).since = {"reset_sources", "execute_tool"}
    /\ ret.op = "execute_tool"
    /\ \E t \in ToolInstances : last_sources[t] # <<>> /\ last_sources[t] # Val(held).contents
    /\ \A t \in ToolInstances : last_sources[t] # Val(held).contents

=============================================================================
